---- MODULE Spec2Model ----
(***************************************************************************)
(* Model of oldScripts/tempCodeRunnerFile.py: the offset-based and the     *)
(* cursor-based paginated fetch, the vote cleaning step, the client-side   *)
(* date-window filter and the orchestration in main.                       *)
(*                                                                         *)
(* A DataFrame is [cols |-> set of column names, rows |-> sequence of      *)
(* records].  A GewijzigdOp cell is [k, sec, ms, off]: k = "raw" is the    *)
(* ISO-8601 string of the API (wall-clock second sec, millisecond ms, UTC  *)
(* offset off in seconds), k = "bad" a string that is no timestamp,        *)
(* k = "ts" a parsed UTC instant, k = "nat" pandas' NaT.                   *)
(***************************************************************************)
EXTENDS Integers, Sequences, FiniteSets, TLC

VARIABLES
    srvVotes,   \* the server's Stemming records, in server order
    srvDocs,    \* the server's Document (Motie) records, in server order
    pc,         \* position of the run
    window,     \* "pre" or "post": the period main is working on
    pf,         \* locals of fetch_paginated_data
    cf,         \* locals of fetch_coauthoring_data
    ret,        \* value returned by the last fetch call
    reqs,       \* requests issued by the current fetch call, in order
    resps,      \* responses received by the current fetch call, in order
    data,       \* main: pre_data / post_data
    all_data,   \* main: all_data of the fallback branch
    csv,        \* window -> vote CSV written by main
    json,       \* window -> document JSON written by main
    calls,      \* fetch calls main has made, in order
    tbl,        \* input table of the cleaning step
    cleaned,    \* process_voting_data(tbl)
    recleaned,  \* process_voting_data(process_voting_data(tbl))
    windowed,   \* the client-side window filter applied to cleaned
    did         \* which of the cleaning steps have run

vars == <<srvVotes, srvDocs, pc, window, pf, cf, ret, reqs, resps, data,
          all_data, csv, json, calls, tbl, cleaned, recleaned, windowed, did>>

fetchVars == <<pf, cf, ret, reqs, resps>>
mainVars  == <<window, data, all_data, csv, json, calls>>
cleanVars == <<tbl, cleaned, recleaned, windowed, did>>

-----------------------------------------------------------------------------
(* Bounds of the model *)

MaxRows == 3        \* rows of an input table of the cleaning step
MaxVotes == 2       \* Stemming records the server holds in a run of main
MaxFullPages == 2   \* full pages the server can serve to one fetch call

BATCH_SIZE == 250

Min(a, b) == IF a <= b THEN a ELSE b

Range(s) == {s[i] : i \in 1..Len(s)}

-----------------------------------------------------------------------------
(* Timestamps *)

Raw(sec, ms, off) == [k |-> "raw", sec |-> sec, ms |-> ms, off |-> off]
Instant(sec, ms) == [k |-> "ts", sec |-> sec, ms |-> ms, off |-> 0]
NaT == [k |-> "nat", sec |-> 0, ms |-> 0, off |-> 0]
BadString == [k |-> "bad", sec |-> 0, ms |-> 0, off |-> 0]

\* pd.Timestamp("2022-11-22", tz='UTC') and the three other window bounds
pre_start_dt == Instant(1669075200, 0)
pre_end_dt == Instant(1700611199, 0)
post_start_dt == Instant(1720137600, 0)
post_end_dt == Instant(1751673599, 0)

Windows == {"pre", "post"}
start_dt(w) == IF w = "pre" THEN pre_start_dt ELSE post_start_dt
end_dt(w) == IF w = "pre" THEN pre_end_dt ELSE post_end_dt

\* pd.to_datetime(cell, format='ISO8601', errors='coerce', utc=True)
to_datetime(v) ==
    CASE v.k = "raw" -> Instant(v.sec - v.off, v.ms)
      [] v.k = "ts" -> v
      [] OTHER -> NaT

\* a >= b and a <= b on datetime cells; a comparison with NaT is False
Ge(a, b) ==
    /\ a.k = "ts"
    /\ b.k = "ts"
    /\ \/ a.sec > b.sec
       \/ a.sec = b.sec /\ a.ms >= b.ms

Le(a, b) ==
    /\ a.k = "ts"
    /\ b.k = "ts"
    /\ \/ a.sec < b.sec
       \/ a.sec = b.sec /\ a.ms <= b.ms

-----------------------------------------------------------------------------
(* DataFrames *)

\* pd.DataFrame()
EmptyFrame == [cols |-> {}, rows |-> <<>>]

\* pd.DataFrame(records)
DataFrame(records) ==
    [cols |-> UNION {DOMAIN records[i] : i \in 1..Len(records)},
     rows |-> records]

\* df.empty
IsEmpty(df) == df.cols = {} \/ df.rows = <<>>

\* df[available_cols]
SelectCols(df, cs) ==
    [cols |-> cs,
     rows |-> [i \in 1..Len(df.rows) |-> [c \in cs |-> df.rows[i][c]]]]

\* df.drop_duplicates(): the first occurrence of every row, in order
drop_duplicates(df) ==
    LET s == df.rows
        f[i \in 0..Len(s)] ==
            IF i = 0 THEN <<>>
            ELSE IF \E j \in 1..(i - 1) : s[j] = s[i]
                 THEN f[i - 1]
                 ELSE Append(f[i - 1], s[i])
    IN [cols |-> df.cols, rows |-> f[Len(s)]]

\* pd.concat(frames, ignore_index=True)
concat(frames) ==
    LET f[i \in 0..Len(frames)] ==
            IF i = 0 THEN <<>> ELSE f[i - 1] \o frames[i].rows
    IN [cols |-> UNION {frames[i].cols : i \in 1..Len(frames)},
        rows |-> f[Len(frames)]]

-----------------------------------------------------------------------------
(* The cleaning step *)

cols == {"Besluit_Id", "ActorFractie", "Soort", "GewijzigdOp"}

IsVoorTegen(r) == r.Soort \in {"Voor", "Tegen"}

\* a slip that removes duplicates before the projection instead of after it
process_voting_data_dedup_first(df) ==
    IF IsEmpty(df) THEN df
    ELSE LET d1 == IF "Soort" \in df.cols
                       THEN [cols |-> df.cols, rows |-> SelectSeq(df.rows, IsVoorTegen)]
                       ELSE df
             available_cols == cols \cap d1.cols
         IN IF available_cols # {}
            THEN SelectCols(drop_duplicates(d1), available_cols)
            ELSE d1

\* a slip that leaves the vote-type filter out
process_voting_data_no_filter(df) ==
    IF IsEmpty(df) THEN df
    ELSE LET available_cols == cols \cap df.cols
         IN IF available_cols # {}
            THEN drop_duplicates(SelectCols(df, available_cols))
            ELSE df

process_voting_data(df) ==
    IF IsEmpty(df) THEN df
    ELSE LET d1 == IF "Soort" \in df.cols
                       THEN [cols |-> df.cols, rows |-> SelectSeq(df.rows, IsVoorTegen)]
                       ELSE df
             available_cols == cols \cap d1.cols
         IN IF available_cols # {}
            THEN drop_duplicates(SelectCols(d1, available_cols))
            ELSE d1

\* processed["GewijzigdOp"] = pd.to_datetime(processed["GewijzigdOp"], ...)
parse_column(df) ==
    [cols |-> df.cols,
     rows |-> [i \in 1..Len(df.rows) |->
                 [df.rows[i] EXCEPT !.GewijzigdOp = to_datetime(@)]]]

\* processed[(processed["GewijzigdOp"] >= start) & (processed["GewijzigdOp"] <= end)]
window_mask(df, w) ==
    LET Keep(r) == Ge(r.GewijzigdOp, start_dt(w)) /\ Le(r.GewijzigdOp, end_dt(w))
    IN [cols |-> df.cols, rows |-> SelectSeq(df.rows, Keep)]

\* the body of `if "GewijzigdOp" in processed.columns:` in main
window_filter(df, w) ==
    IF "GewijzigdOp" \in df.cols THEN window_mask(parse_column(df), w) ELSE df

-----------------------------------------------------------------------------
(* The server: requests.get(url) *)

NoFilter == [k |-> "none"]
NoLink == [k |-> "none"]

\* the rows of a Stemming query: $filter=GewijzigdOp ge .. and GewijzigdOp le ..
ServerFilter(records, filter_query) ==
    LET Match(r) == /\ Ge(to_datetime(r.GewijzigdOp), filter_query.ge)
                    /\ Le(to_datetime(r.GewijzigdOp), filter_query.le)
    IN IF filter_query = NoFilter THEN records ELSE SelectSeq(records, Match)

\* $top and $skip applied to a result list
ServerPage(records, skip, top) ==
    SubSeq(records, skip + 1, Min(skip + top, Len(records)))

\* what the server can answer to a Stemming request: an error, the page, or,
\* when the date filter fails on the server side, no rows at all
VoteOutcomes(url) ==
    IF url.filter = NoFilter THEN {"error", "page"} ELSE {"error", "page", "norows"}

VoteResponse(url, outcome) ==
    CASE outcome = "error" -> [ok |-> FALSE, value |-> <<>>, next |-> NoLink]
      [] outcome = "norows" -> [ok |-> TRUE, value |-> <<>>, next |-> NoLink]
      [] OTHER ->
           [ok |-> TRUE,
            value |-> ServerPage(ServerFilter(srvVotes, url.filter), url.skip, url.top),
            next |-> NoLink]

\* the documents of one query, by its Datum range
DocsOf(filter_query) ==
    srvDocs[IF filter_query.date_from = "2022-11-22" THEN "pre" ELSE "post"]

\* where in the result list a Document request starts
DocPosition(url) ==
    IF url.k = "link" THEN url.pos ELSE IF url.has_skip THEN url.skip ELSE 0

DocOutcomes == {"error", "page", "page_with_link"}

\* a server-driven page: the records at the request's position and, if the
\* server chooses to send one, the link to the records after them
DocResponse(url, outcome) ==
    LET value == ServerPage(DocsOf(url.filter), DocPosition(url), 250)
    IN CASE outcome = "error" -> [ok |-> FALSE, value |-> <<>>, next |-> NoLink]
         [] outcome = "page_with_link" /\ Len(value) = 250 ->
              [ok |-> TRUE, value |-> value,
               next |-> [k |-> "link", filter |-> url.filter,
                         pos |-> DocPosition(url) + Len(value)]]
         [] OTHER -> [ok |-> TRUE, value |-> value, next |-> NoLink]

-----------------------------------------------------------------------------
(* fetch_paginated_data *)

pre_filter == [k |-> "range", ge |-> Instant(1669075200, 0), le |-> Instant(1700611199, 0)]
post_filter == [k |-> "range", ge |-> Instant(1720137600, 0), le |-> Instant(1751673599, 0)]

\* the locals on entry
paginated_entry(endpoint, filter_query) ==
    [endpoint |-> endpoint, filter_query |-> filter_query, all_data |-> <<>>,
     skip |-> 0, batch_num |-> 1, total_records |-> 0, running |-> TRUE]

\* the URL of the next request
paginated_url(f) ==
    [endpoint |-> f.endpoint, filter |-> f.filter_query, top |-> BATCH_SIZE,
     skip |-> f.skip]

\* a slip that stops on a short page before keeping it
paginated_page_drops_short(f, value) ==
    IF Len(value) < BATCH_SIZE
    THEN [f EXCEPT !.running = FALSE]
    ELSE [f EXCEPT !.all_data = Append(@, DataFrame(value)),
                   !.total_records = @ + Len(value),
                   !.skip = @ + BATCH_SIZE,
                   !.batch_num = @ + 1]

\* the try body after a successful response
paginated_page(f, value) ==
    IF Len(value) = 0
    THEN [f EXCEPT !.running = FALSE]
    ELSE LET f1 == [f EXCEPT !.all_data = Append(@, DataFrame(value)),
                             !.total_records = @ + Len(value)]
         IN IF Len(value) < BATCH_SIZE
            THEN [f1 EXCEPT !.running = FALSE]
            ELSE [f1 EXCEPT !.skip = @ + BATCH_SIZE, !.batch_num = @ + 1]

\* the except clause
paginated_error(f) == [f EXCEPT !.running = FALSE]

\* the value returned after the loop
paginated_result(f) ==
    IF f.all_data # <<>> THEN concat(f.all_data) ELSE EmptyFrame

ReturnLabel(p) ==
    CASE p = "votes" -> "votes_ret"
      [] p = "fallback" -> "fallback_ret"
      [] OTHER -> "docs_ret"

\* one iteration of the while loop of fetch_paginated_data, and the return
\* when the iteration leaves the loop
PaginatedStep ==
    /\ pc \in {"votes", "fallback"}
    /\ \E outcome \in VoteOutcomes(paginated_url(pf)) :
         LET url == paginated_url(pf)
             response == VoteResponse(url, outcome)
             f == IF response.ok THEN paginated_page(pf, response.value)
                  ELSE paginated_error(pf)
         IN /\ reqs' = Append(reqs, url)
            /\ resps' = Append(resps, response)
            /\ pf' = f
            /\ IF f.running
               THEN UNCHANGED <<pc, ret>>
               ELSE pc' = ReturnLabel(pc) /\ ret' = paginated_result(f)
    /\ UNCHANGED <<srvVotes, srvDocs, cf, mainVars, cleanVars>>

-----------------------------------------------------------------------------
(* fetch_coauthoring_data *)

\* params, with the filter built from date_from and date_to
coauthoring_params(date_from, date_to) ==
    [filter |-> [soort |-> "Motie", date_from |-> date_from, date_to |-> date_to],
     expand |-> "DocumentActor",
     select |-> "Id,Datum,Soort,Titel,Onderwerp,DocumentActor",
     top |-> 250]

\* the URL built from params, with $skip appended on the fallback
coauthoring_url(params, has_skip, skip) ==
    [k |-> "query", filter |-> params.filter, expand |-> params.expand,
     select |-> params.select, top |-> params.top,
     has_skip |-> has_skip, skip |-> skip]

\* the locals on entry
coauthoring_entry(date_from, date_to) ==
    [params |-> coauthoring_params(date_from, date_to),
     url |-> coauthoring_url(coauthoring_params(date_from, date_to), FALSE, 0),
     all_items |-> <<>>, seen |-> 0, batch_num |-> 1, skip |-> 0,
     running |-> TRUE]

\* a slip that always continues by offset, ignoring the server's link
coauthoring_page_ignores_link(f, payload) ==
    LET value == payload.value
        f1 == [f EXCEPT !.all_items = @ \o value, !.seen = @ + Len(value)]
    IN IF Len(value) < 250
       THEN [f1 EXCEPT !.running = FALSE]
       ELSE [f1 EXCEPT !.skip = @ + 250,
                       !.url = coauthoring_url(f.params, TRUE, f.skip + 250),
                       !.batch_num = @ + 1]

\* the try body after a successful response
coauthoring_page(f, payload) ==
    LET value == payload.value
        next_link == payload.next
        f1 == [f EXCEPT !.all_items = @ \o value, !.seen = @ + Len(value)]
    IN IF Len(value) < 250
       THEN [f1 EXCEPT !.running = FALSE]
       ELSE IF next_link # NoLink
            THEN [f1 EXCEPT !.url = next_link, !.batch_num = @ + 1]
            ELSE [f1 EXCEPT !.skip = @ + 250,
                            !.url = coauthoring_url(f.params, TRUE, f.skip + 250),
                            !.batch_num = @ + 1]

\* a slip that tries the same request again after a failure
coauthoring_error_retries(f) == f

\* the except clause
coauthoring_error(f) == [f EXCEPT !.running = FALSE]

\* one iteration of the while loop of fetch_coauthoring_data, and the return
\* when the iteration leaves the loop
CoauthoringStep ==
    /\ pc = "docs"
    /\ \E outcome \in DocOutcomes :
         LET url == cf.url
             response == DocResponse(url, outcome)
             f == IF response.ok THEN coauthoring_page(cf, response)
                  ELSE coauthoring_error(cf)
         IN /\ reqs' = Append(reqs, url)
            /\ resps' = Append(resps, response)
            /\ cf' = f
            /\ IF f.running
               THEN UNCHANGED <<pc, ret>>
               ELSE pc' = ReturnLabel(pc) /\ ret' = f.all_items
    /\ UNCHANGED <<srvVotes, srvDocs, pf, mainVars, cleanVars>>

-----------------------------------------------------------------------------
(* main *)

vote_filter(w) == IF w = "pre" THEN pre_filter ELSE post_filter
date_from(w) == IF w = "pre" THEN "2022-11-22" ELSE "2024-07-05"
date_to(w) == IF w = "pre" THEN "2023-11-21" ELSE "2025-07-04"

NoFile == [written |-> FALSE, rows |-> <<>>]

\* df.to_csv(path, index=False): a timestamp is written as its UTC text
to_csv(df) ==
    LET Text(v) == IF v.k = "ts" THEN [v EXCEPT !.k = "utc text"]
                   ELSE IF v.k = "nat" THEN [v EXCEPT !.k = "empty text"]
                   ELSE v
    IN [written |-> TRUE,
        rows |-> [i \in 1..Len(df.rows) |->
                    IF "GewijzigdOp" \in df.cols
                    THEN [df.rows[i] EXCEPT !.GewijzigdOp = Text(@)]
                    ELSE df.rows[i]]]

Call(fn, w, filtered) == [fn |-> fn, window |-> w, filtered |-> filtered]

\* pre_data = fetch_paginated_data("Stemming", pre_filter), and the same for post
BeginWindow ==
    /\ pc = "main"
    /\ pc' = "votes"
    /\ pf' = paginated_entry("Stemming", vote_filter(window))
    /\ reqs' = <<>>
    /\ resps' = <<>>
    /\ calls' = Append(calls, Call("fetch_paginated_data", window, TRUE))
    /\ UNCHANGED <<srvVotes, srvDocs, cf, ret, window, data, all_data, csv, json,
                   cleanVars>>

\* a slip that refetches everything whatever the filtered fetch returned
AfterVotes_always_refetches ==
    /\ pc = "votes_ret"
    /\ data' = ret
    /\ pc' = "fallback"
    /\ pf' = paginated_entry("Stemming", NoFilter)
    /\ reqs' = <<>>
    /\ resps' = <<>>
    /\ calls' = Append(calls, Call("fetch_paginated_data", window, FALSE))
    /\ UNCHANGED <<srvVotes, srvDocs, cf, ret, window, all_data, csv, json,
                   cleanVars>>

\* `if pre_data.empty:` and the call all_data = fetch_paginated_data("Stemming")
AfterVotes ==
    /\ pc = "votes_ret"
    /\ data' = ret
    /\ IF IsEmpty(ret)
       THEN /\ pc' = "fallback"
            /\ pf' = paginated_entry("Stemming", NoFilter)
            /\ reqs' = <<>>
            /\ resps' = <<>>
            /\ calls' = Append(calls, Call("fetch_paginated_data", window, FALSE))
       ELSE /\ pc' = "process"
            /\ UNCHANGED <<pf, reqs, resps, calls>>
    /\ UNCHANGED <<srvVotes, srvDocs, cf, ret, window, all_data, csv, json,
                   cleanVars>>

\* the rest of the fallback branch: clean all_data and filter it to the window
AfterFallback ==
    /\ pc = "fallback_ret"
    /\ all_data' = ret
    /\ IF ~IsEmpty(ret)
       THEN LET processed == process_voting_data(ret)
            IN IF "GewijzigdOp" \in processed.cols
               THEN data' = window_mask(parse_column(processed), window)
               ELSE UNCHANGED data
       ELSE UNCHANGED data
    /\ pc' = "process"
    /\ UNCHANGED <<srvVotes, srvDocs, fetchVars, window, csv, json, calls, cleanVars>>

\* what main writes for a window's votes: nothing when there is no data
vote_csv(df, w) ==
    IF ~IsEmpty(df) THEN to_csv(window_filter(process_voting_data(df), w)) ELSE NoFile

\* a slip that ends the run when a window has no vote data
ProcessVotes_stops_without_data ==
    /\ pc = "process"
    /\ csv' = [csv EXCEPT ![window] = vote_csv(data, window)]
    /\ IF IsEmpty(data)
       THEN /\ pc' = "done"
            /\ UNCHANGED <<cf, reqs, resps, calls>>
       ELSE /\ pc' = "docs"
            /\ cf' = coauthoring_entry(date_from(window), date_to(window))
            /\ reqs' = <<>>
            /\ resps' = <<>>
            /\ calls' = Append(calls, Call("fetch_coauthoring_data", window, TRUE))
    /\ UNCHANGED <<srvVotes, srvDocs, pf, ret, window, data, all_data, json, cleanVars>>

\* `if not pre_data.empty:` .. `else:`, then the call of fetch_coauthoring_data;
\* the report reads the columns Besluit_Id and ActorFractie of what was written
ProcessVotes ==
    /\ pc = "process"
    /\ csv' = [csv EXCEPT ![window] = vote_csv(data, window)]
    /\ IF ~IsEmpty(data)
          /\ ~({"Besluit_Id", "ActorFractie"} \subseteq process_voting_data(data).cols)
       THEN /\ pc' = "crashed"
            /\ UNCHANGED <<cf, reqs, resps, calls>>
       ELSE /\ pc' = "docs"
            /\ cf' = coauthoring_entry(date_from(window), date_to(window))
            /\ reqs' = <<>>
            /\ resps' = <<>>
            /\ calls' = Append(calls, Call("fetch_coauthoring_data", window, TRUE))
    /\ UNCHANGED <<srvVotes, srvDocs, pf, ret, window, data, all_data, json, cleanVars>>

\* `if coauth_pre_items:` .. `else:`, then the next period or the end of main
AfterDocs ==
    /\ pc = "docs_ret"
    /\ json' = [json EXCEPT ![window] =
                   IF ret # <<>> THEN [written |-> TRUE, rows |-> ret] ELSE @]
    /\ IF window = "pre"
       THEN window' = "post" /\ pc' = "main"
       ELSE pc' = "done" /\ UNCHANGED window
    /\ UNCHANGED <<srvVotes, srvDocs, fetchVars, data, all_data, csv, calls, cleanVars>>

-----------------------------------------------------------------------------
(* The cleaning step and the window filter on their own *)

Clean ==
    /\ pc = "clean"
    /\ "clean" \notin did
    /\ cleaned' = process_voting_data(tbl)
    /\ did' = did \cup {"clean"}
    /\ UNCHANGED <<srvVotes, srvDocs, pc, fetchVars, mainVars, tbl, recleaned, windowed>>

CleanAgain ==
    /\ pc = "clean"
    /\ "clean" \in did
    /\ "again" \notin did
    /\ recleaned' = process_voting_data(cleaned)
    /\ did' = did \cup {"again"}
    /\ UNCHANGED <<srvVotes, srvDocs, pc, fetchVars, mainVars, tbl, cleaned, windowed>>

FilterWindow ==
    /\ pc = "clean"
    /\ "clean" \in did
    /\ "window" \notin did
    /\ windowed' = window_filter(cleaned, window)
    /\ did' = did \cup {"window"}
    /\ UNCHANGED <<srvVotes, srvDocs, pc, fetchVars, mainVars, tbl, cleaned, recleaned>>

-----------------------------------------------------------------------------
(* Inputs *)

Vote(id, besluit, fractie, soort, gewijzigd) ==
    [Id |-> id, Besluit_Id |-> besluit, ActorFractie |-> fractie, Soort |-> soort,
     GewijzigdOp |-> gewijzigd]

\* sequences over S of length at most n
SeqsUpTo(S, n) == UNION {[1..m -> S] : m \in 0..n}

\* Stemming records for a run of main: one instant written with two UTC
\* offsets, a repeated record, an abstention, a record of the second period
\* and a record outside both periods
MainVotes ==
    {Vote(1, 1, "VVD", "Voor", Raw(1685620800, 0, 0)),
     Vote(2, 1, "VVD", "Voor", Raw(1685628000, 0, 7200)),
     Vote(3, 1, "VVD", "Voor", Raw(1685620800, 0, 0)),
     Vote(4, 1, "PVV", "Niet deelgenomen", Raw(1685620800, 0, 0)),
     Vote(5, 2, "PVV", "Tegen", Raw(1725192000, 0, 0)),
     Vote(6, 2, "PVV", "Tegen", Raw(1641038400, 0, 0))}

MainDocs == {<<>>, <<101, 102>>}

\* Stemming records for the cleaning step: repeated records, the three vote
\* types, a string that is no timestamp, and timestamps on both sides of the
\* bounds of the two periods
CleanVotes ==
    {Vote(1, 1, "VVD", "Voor", Raw(1685620800, 0, 0)),
     Vote(2, 1, "VVD", "Voor", Raw(1685620800, 0, 0)),
     Vote(3, 1, "VVD", "Tegen", Raw(1685620800, 0, 0)),
     Vote(4, 1, "PVV", "Niet deelgenomen", Raw(1685620800, 0, 0)),
     Vote(5, 2, "PVV", "Voor", Raw(1669078800, 0, 3600)),
     Vote(6, 2, "PVV", "Voor", Raw(1669075199, 999, 0)),
     Vote(7, 2, "PVV", "Voor", Raw(1700611199, 0, 0)),
     Vote(8, 2, "PVV", "Voor", Raw(1700611199, 500, 0)),
     Vote(9, 2, "PVV", "Voor", Raw(1700611200, 0, 0)),
     Vote(10, 2, "PVV", "Voor", BadString),
     Vote(11, 2, "PVV", "Voor", Raw(1720137600, 0, 0)),
     Vote(12, 2, "PVV", "Voor", Raw(1751673599, 500, 0))}

\* the first n records of a long result list
ManyVotes(n) == [i \in 1..n |-> Vote(i, i, "VVD", "Voor", Raw(1685620800, 0, 0))]
ManyDocs(n) == [i \in 1..n |-> i]

\* result sizes that end on a full page, a short page or no page
ResultSizes == {p * BATCH_SIZE + r : p \in 0..MaxFullPages, r \in {0, 90}}

IdleFetch ==
    /\ reqs = <<>>
    /\ resps = <<>>
    /\ ret = <<>>
    /\ pf = paginated_entry("Stemming", NoFilter)
    /\ cf = coauthoring_entry(date_from("pre"), date_to("pre"))

IdleMain ==
    /\ window = "pre"
    /\ data = EmptyFrame
    /\ all_data = EmptyFrame
    /\ csv = [w \in Windows |-> NoFile]
    /\ json = [w \in Windows |-> NoFile]
    /\ calls = <<>>

IdleClean ==
    /\ tbl = EmptyFrame
    /\ cleaned = EmptyFrame
    /\ recleaned = EmptyFrame
    /\ windowed = EmptyFrame
    /\ did = {}

-----------------------------------------------------------------------------
(* Specifications *)

\* a run of main against a server holding a few records
Init ==
    /\ srvVotes \in SeqsUpTo(MainVotes, MaxVotes)
    /\ srvDocs \in [Windows -> MainDocs]
    /\ pc = "main"
    /\ IdleFetch
    /\ IdleMain
    /\ IdleClean

Next ==
    \/ BeginWindow
    \/ PaginatedStep
    \/ AfterVotes
    \/ AfterFallback
    \/ ProcessVotes
    \/ CoauthoringStep
    \/ AfterDocs

Spec == Init /\ [][Next]_vars

\* main runs to its end: no step of it waits for anything but the server's answer
FairSpec == Spec /\ WF_vars(Next)

\* one call of a fetch function against a server holding several pages
InitFetch ==
    /\ \E n \in ResultSizes :
         \/ /\ pc \in {"votes", "fallback"}
            /\ srvVotes = ManyVotes(n)
            /\ srvDocs = [w \in Windows |-> <<>>]
            /\ pf = paginated_entry("Stemming",
                                    IF pc = "votes" THEN pre_filter ELSE NoFilter)
            /\ cf = coauthoring_entry(date_from("pre"), date_to("pre"))
         \/ /\ pc = "docs"
            /\ srvVotes = <<>>
            /\ srvDocs = [w \in Windows |-> ManyDocs(n)]
            /\ pf = paginated_entry("Stemming", NoFilter)
            /\ cf = coauthoring_entry(date_from("pre"), date_to("pre"))
    /\ reqs = <<>>
    /\ resps = <<>>
    /\ ret = <<>>
    /\ IdleMain
    /\ IdleClean

NextFetch ==
    \/ PaginatedStep
    \/ CoauthoringStep

SpecFetch == InitFetch /\ [][NextFetch]_vars

\* the cleaning step applied to every small table
InitClean ==
    /\ tbl \in {DataFrame(s) : s \in SeqsUpTo(CleanVotes, MaxRows)}
    /\ window \in Windows
    /\ pc = "clean"
    /\ srvVotes = <<>>
    /\ srvDocs = [w \in Windows |-> <<>>]
    /\ IdleFetch
    /\ data = EmptyFrame
    /\ all_data = EmptyFrame
    /\ csv = [w \in Windows |-> NoFile]
    /\ json = [w \in Windows |-> NoFile]
    /\ calls = <<>>
    /\ cleaned = EmptyFrame
    /\ recleaned = EmptyFrame
    /\ windowed = EmptyFrame
    /\ did = {}

NextClean ==
    \/ Clean
    \/ CleanAgain
    \/ FilterWindow

SpecClean == InitClean /\ [][NextClean]_vars

-----------------------------------------------------------------------------
(* Properties *)

InPaginated == pc \in {"votes", "fallback", "votes_ret", "fallback_ret"}
InCoauthoring == pc \in {"docs", "docs_ret"}
Returned == pc \in {"votes_ret", "fallback_ret", "docs_ret"}

\* the records of the first n responses of the current call, in request order
Received(n) ==
    LET f[i \in 0..n] == IF i = 0 THEN <<>> ELSE f[i - 1] \o resps[i].value
    IN f[n]

\* the records in the value a fetch call returned
ReturnedRecords == IF pc = "docs_ret" THEN ret ELSE ret.rows

NoRepeats(s) == \A i, j \in 1..Len(s) : i # j => s[i] # s[j]

\* C1: while every page of a fetch_paginated_data call succeeds, its requests
\* carry the offsets 0, 250, 500, .. in that order, every page before the last
\* one received had 250 records, the call is still in its loop only if every
\* page so far was full, and once it has returned the last page was shorter
\* than 250 records and the result is exactly the pages received, concatenated
\* in request order.
C1_OffsetPagination ==
    (InPaginated /\ \A i \in 1..Len(resps) : resps[i].ok) =>
        /\ \A i \in 1..Len(reqs) : reqs[i].skip = 250 * (i - 1) /\ reqs[i].top = 250
        /\ \A i \in 1..(Len(resps) - 1) : Len(resps[i].value) = 250
        /\ pc \in {"votes", "fallback"} =>
               \A i \in 1..Len(resps) : Len(resps[i].value) = 250
        /\ Returned =>
               /\ Len(resps) >= 1
               /\ Len(resps[Len(resps)].value) < 250
               /\ ret.rows = Received(Len(resps))

\* pages of 250, 250 and 90 records gave 590 records in 3 requests
C1_Witness ==
    /\ pc = "votes_ret"
    /\ Len(reqs) = 3
    /\ \A i \in 1..3 : resps[i].ok
    /\ Len(resps[3].value) = 90
    /\ Len(ret.rows) = 590

\* the $skip value of the latest of the first i requests (0 without $skip)
PreviousSkip(i) ==
    LET S == {j \in 1..i : reqs[j].k = "query" /\ reqs[j].has_skip}
    IN IF S = {} THEN 0 ELSE reqs[CHOOSE j \in S : \A m \in S : m <= j].skip

\* the request that follows the i-th one: issued already, or the one to issue
FollowingRequest(i) == IF i < Len(reqs) THEN reqs[i + 1] ELSE cf.url

\* C2: in fetch_coauthoring_data every successful response with 250 items is
\* followed by a request: to the response's @odata.nextLink when it has one,
\* and otherwise to the initial query ($filter, $expand, $select, $top) with
\* a $skip that is 250 more than the previous skip value.
C2_NextRequest ==
    InCoauthoring =>
        \A i \in 1..Len(resps) :
            (resps[i].ok /\ Len(resps[i].value) = 250) =>
                /\ i = Len(reqs) => pc = "docs"
                /\ IF resps[i].next # NoLink
                   THEN FollowingRequest(i) = resps[i].next
                   ELSE /\ FollowingRequest(i).k = "query"
                        /\ FollowingRequest(i).has_skip
                        /\ FollowingRequest(i).filter = reqs[1].filter
                        /\ FollowingRequest(i).expand = reqs[1].expand
                        /\ FollowingRequest(i).select = reqs[1].select
                        /\ FollowingRequest(i).top = reqs[1].top
                        /\ FollowingRequest(i).skip = PreviousSkip(i) + 250

\* a full page with a link was followed by the link, and a full page without
\* one by an offset request
C2_Witness ==
    /\ InCoauthoring
    /\ Len(reqs) >= 3
    /\ resps[1].next # NoLink
    /\ reqs[2] = resps[1].next
    /\ Len(resps[2].value) = 250
    /\ resps[2].next = NoLink
    /\ reqs[3].k = "query"
    /\ reqs[3].has_skip

\* C3: the cleaned table holds exactly the distinct rows that are the four
\* columns Besluit_Id, ActorFractie, Soort, GewijzigdOp of the input rows with
\* Soort "Voor" or "Tegen"; it has no more rows than the input, and none for an
\* empty input.
C3_CleaningContract ==
    "clean" \in did =>
        /\ Range(cleaned.rows) =
              {[c \in {"Besluit_Id", "ActorFractie", "Soort", "GewijzigdOp"} |-> r[c]] :
                  r \in {x \in Range(tbl.rows) : x.Soort = "Voor" \/ x.Soort = "Tegen"}}
        /\ NoRepeats(cleaned.rows)
        /\ Len(cleaned.rows) <= Len(tbl.rows)
        /\ tbl.rows = <<>> => cleaned.rows = <<>>

\* a table of three rows was cleaned to one: a row went for its vote type and
\* another as a duplicate
C3_Witness ==
    /\ "clean" \in did
    /\ Len(tbl.rows) = 3
    /\ Len(cleaned.rows) = 1
    /\ \E i \in 1..3 : tbl.rows[i].Soort = "Niet deelgenomen"
    /\ \E i, j \in 1..3 : /\ i # j
                          /\ tbl.rows[i].Soort = "Voor"
                          /\ tbl.rows[j].Soort = "Voor"

\* C4: cleaning the cleaned table gives the cleaned table.
C4_CleaningIdempotent == "again" \in did => recleaned = cleaned

\* a table that cleaning shortened, without emptying it, was cleaned twice
C4_Witness ==
    /\ "again" \in did
    /\ cleaned.rows # <<>>
    /\ Len(cleaned.rows) < Len(tbl.rows)

\* the cleaned rows of df whose timestamp is within the bounds main compares with
CleanedInWindow(df, w) ==
    {[r EXCEPT !.GewijzigdOp = to_datetime(@)] :
        r \in {x \in {[c \in {"Besluit_Id", "ActorFractie", "Soort", "GewijzigdOp"} |-> y[c]] :
                         y \in {z \in Range(df.rows) : z.Soort \in {"Voor", "Tegen"}}} :
                  /\ Ge(to_datetime(x.GewijzigdOp), start_dt(w))
                  /\ Le(to_datetime(x.GewijzigdOp), end_dt(w))}}

UnfilteredCalls(cs) == SelectSeq(cs, LAMBDA c : ~c.filtered)

\* C5: main calls the unfiltered vote fetch exactly in the step that follows a
\* filtered vote fetch that returned no rows, and in no other step; and what
\* the fallback leaves as the window's data is the cleaned rows of the
\* unfiltered result whose GewijzigdOp is inside the window.
C5_FallbackIffEmpty ==
    [][/\ (UnfilteredCalls(calls') # UnfilteredCalls(calls)) <=>
              (pc = "votes_ret" /\ ret.rows = <<>>)
       /\ UnfilteredCalls(calls') # UnfilteredCalls(calls) =>
              /\ calls' = Append(calls, Call("fetch_paginated_data", window, FALSE))
              /\ pc' = "fallback"
       /\ pc = "fallback_ret" =>
              Range(data'.rows) = CleanedInWindow(ret, window)]_vars

\* the fallback ran and the client-side filter removed rows of its result
C5_Witness ==
    /\ pc = "process"
    /\ calls[Len(calls)] = Call("fetch_paginated_data", "pre", FALSE)
    /\ data.rows # <<>>
    /\ Len(data.rows) < Len(all_data.rows)

\* the first second of the window's first day and the first second after its
\* last day
FirstSecond(w) == IF w = "pre" THEN 1669075200 ELSE 1720137600
SecondAfter(w) == IF w = "pre" THEN 1700611200 ELSE 1751673600

\* C6: the client-side filter keeps a record exactly when its timestamp is on
\* or after the first instant of the window's first day and on or before the
\* end of its last day.
C6_WindowInclusive ==
    "window" \in did =>
        \A r \in Range(cleaned.rows) :
            ([r EXCEPT !.GewijzigdOp = to_datetime(@)] \in Range(windowed.rows)) <=>
                /\ to_datetime(r.GewijzigdOp).k = "ts"
                /\ to_datetime(r.GewijzigdOp).sec >= FirstSecond(window)
                /\ to_datetime(r.GewijzigdOp).sec < SecondAfter(window)

\* C7: in both fetch functions a failed request is the last request of the
\* call: the call has returned, nothing was requested after it, and the result
\* is exactly the records of the pages received before it.
C7_FailureEndsFetch ==
    \A k \in 1..Len(resps) :
        ~resps[k].ok =>
            /\ k = Len(resps)
            /\ k = Len(reqs)
            /\ Returned
            /\ ReturnedRecords = Received(k - 1)

\* the third request of a document fetch failed and the two pages before it
\* were returned
C7_Witness ==
    /\ pc = "docs_ret"
    /\ Len(resps) = 3
    /\ ~resps[3].ok
    /\ Len(ret) = 500

\* the calls main makes on its way, the fallback's unfiltered fetch left out
PrimaryCalls == SelectSeq(calls, LAMBDA c : c.filtered)

\* C8: whatever the server answers, main ends, having fetched the votes and the
\* documents of the first period and then those of the second, in that order.
C8_RunContinues ==
    <>(/\ pc = "done"
       /\ PrimaryCalls = <<Call("fetch_paginated_data", "pre", TRUE),
                           Call("fetch_coauthoring_data", "pre", TRUE),
                           Call("fetch_paginated_data", "post", TRUE),
                           Call("fetch_coauthoring_data", "post", TRUE)>>)

\* main ended although the first period yielded neither votes nor documents
C8_Witness ==
    /\ pc = "done"
    /\ ~csv["pre"].written
    /\ ~json["pre"].written
    /\ Len(calls) >= 5

\* C9: a vote CSV main has written holds only rows with Soort "Voor" or
\* "Tegen", and no two of its rows are equal as written.
C9_CsvCleanAndUnique ==
    \A w \in Windows :
        csv[w].written =>
            /\ \A i \in 1..Len(csv[w].rows) : csv[w].rows[i].Soort \in {"Voor", "Tegen"}
            /\ NoRepeats(csv[w].rows)

\* C10: every request fetch_coauthoring_data makes with $skip asks for the
\* records after the ones accumulated so far, and the accumulated items are the
\* server's list from its start, nothing twice and nothing left out.
C10_SkipIsAccumulated ==
    InCoauthoring =>
        /\ \A i \in 1..Len(reqs) :
               (reqs[i].k = "query" /\ reqs[i].has_skip) =>
                   reqs[i].skip = Len(Received(i - 1))
        /\ cf.all_items = SubSeq(DocsOf(cf.params.filter), 1, Len(cf.all_items))

====
